---- MODULE Spec2Model ----
(***************************************************************************)
(* A model of the two notebooks of the repository.                         *)
(*                                                                         *)
(*  - pytorch/chapter_preliminaries/ndarray.ipynb: tensors as a shape over *)
(*    a flat, row-major storage; reshape, indexing, elementwise operators  *)
(*    with broadcasting, concatenation, and the memory semantics of        *)
(*    rebinding versus in-place update (Python names, object identities,   *)
(*    shared storages).                                                    *)
(*  - the hybridization notebook (unnamed/part_000): a HybridBlock with    *)
(*    its eager and symbolic execution paths, the cached graph, the lines  *)
(*    hybrid_forward prints, and export.                                   *)
(*                                                                         *)
(* Five specifications share the module:                                   *)
(*    SpecOps     the tensor operators applied to bounded inputs           *)
(*    SpecSame    indexing, and the operators on operands of one shape     *)
(*    Spec        the cells of ndarray.ipynb, run in any order             *)
(*    SpecHybrid  the cells of the hybridization notebook, in any order    *)
(*    SpecEdited  the notebook's HybridNet with one statement added to its *)
(*                hybrid_forward, as the text and the exercises propose    *)
(***************************************************************************)
EXTENDS Integers, Sequences, FiniteSets, TLC

VARIABLES
    u, v, c,                    \* SpecOps: two operand tensors and the last result
    names, objs, mem,           \* Spec: Python namespace, objects by id, storages
    execution_count, last,      \* the kernel's counter and the last cell's record
    net, x,                     \* SpecHybrid: the notebook's variables net and x
    files,                      \* SpecHybrid: the working directory
    name_count,                 \* SpecHybrid: blocks named so far, by kind
    defined,                    \* SpecHybrid: the imports, functions and classes defined
    calls                       \* SpecHybrid: the calls net(x) made on the current net

opVars == <<u, v, c>>
heapVars == <<names, objs, mem>>
kernelVars == <<execution_count, last>>
hyVars == <<net, x, files, name_count, defined, calls>>
vars == <<u, v, c, names, objs, mem, execution_count, last,
          net, x, files, name_count, defined, calls>>

(***************************************************************************)
(* Bounds of the model.                                                    *)
(***************************************************************************)
MaxDim == 3       \* SpecOps: the longest axis of a matrix operand
MaxLen == 6       \* SpecOps: the longest vector operand
MaxStart == 1     \* SpecOps: the largest first element of an operand
MaxStep == 1      \* SpecOps: the largest spacing between an operand's elements
MaxExec == 4      \* Spec: the number of cell executions explored
MaxRuns == 5      \* SpecHybrid: the number of cell executions explored
MaxSeed == 1      \* SpecHybrid: the largest seed of the random generator
InUnits == 3      \* SpecHybrid: stands for the 512 inputs of the MLP
Hidden1 == 2      \* SpecHybrid: stands for the 256 units of the MLP's first layer
Hidden2 == 2      \* SpecHybrid: stands for the 128 units of the MLP's second layer
Reps == 2         \* SpecHybrid: stands for the 1000 evaluations of the benchmark
MaxIndex == 4     \* SpecSame: the largest index or slice bound tried, either sign
MaxExponent == 2  \* SpecSame: the largest element of the exponent of x ** y

None == [none |-> TRUE]
RuntimeError == [error |-> "RuntimeError"]
NameError == [error |-> "NameError"]
IndexError == [error |-> "IndexError"]

IsError(r) == "error" \in DOMAIN r
IsTensor(r) == "shape" \in DOMAIN r

(***************************************************************************)
(* Tensor values: a shape (one or two axes) over a flat row-major sequence *)
(* of elements.                                                            *)
(***************************************************************************)
RECURSIVE Prod(_)
Prod(s) == IF s = <<>> THEN 1 ELSE Head(s) * Prod(Tail(s))

\* x.numel(): the total number of elements.
Numel(t) == Len(t.data)

\* torch.arange(n): evenly spaced values from 0 (included) to n (excluded).
Arange(n) == [shape |-> <<n>>, data |-> [k \in 1..n |-> k - 1]]

\* A tensor given by its first element and a spacing, laid out on a shape.
Ramp(shape, start, step) ==
    [shape |-> shape, data |-> [k \in 1..Prod(shape) |-> start + (k - 1) * step]]

\* The strides of a contiguous tensor: elements are laid out one row at a time.
Strides(shape) ==
    [a \in 1..Len(shape) |-> Prod(SubSeq(shape, a + 1, Len(shape)))]

RECURSIVE Dot(_, _)
Dot(p, q) == IF p = <<>> THEN 0 ELSE Head(p) * Head(q) + Dot(Tail(p), Tail(q))

\* t[idx] for a full index (0-based, one component per axis).
GetItem(t, idx) == t.data[1 + Dot(idx, Strides(t.shape))]

\* A reshape that fills the new shape one column at a time.
ReshapeColumnMajor(t, shape) ==
    IF Prod(shape) # Numel(t) THEN RuntimeError
    ELSE [shape |-> shape,
          data |-> [k \in 1..Numel(t) |->
                      LET w == shape[Len(shape)]
                          h == Numel(t) \div w
                      IN  t.data[1 + ((k - 1) % w) * h + ((k - 1) \div w)]]]

\* x.reshape(shape): the same elements under a new shape; an error when the
\* sizes differ.
Reshape(t, shape) ==
    IF Prod(shape) # Numel(t) THEN RuntimeError
    ELSE [shape |-> shape, data |-> t.data]

\* The 0-based multi-index of the k-th (1-based) element of a contiguous shape.
Unravel(k, shape) ==
    [a \in 1..Len(shape) |-> ((k - 1) \div Strides(shape)[a]) % shape[a]]

\* A shape padded with leading axes of length 1 up to rank r.
PadShape(shape, r) == [a \in 1..r |-> IF a <= r - Len(shape) THEN 1
                                      ELSE shape[a - (r - Len(shape))]]

Max(p, q) == IF p >= q THEN p ELSE q

\* Broadcasting, step (i): the common shape, or an error when an axis differs
\* and neither length is 1.
BroadcastShape(s1, s2) ==
    LET r == Max(Len(s1), Len(s2))
        p1 == PadShape(s1, r)
        p2 == PadShape(s2, r)
    IN  IF \E a \in 1..r : p1[a] # p2[a] /\ p1[a] # 1 /\ p2[a] # 1
        THEN RuntimeError
        ELSE [shape |-> [a \in 1..r |-> IF p1[a] = 1 THEN p2[a] ELSE p1[a]]]

\* An expansion that tiles the flat storage instead of copying along an axis.
ExpandTiled(t, shape) ==
    [shape |-> shape,
     data |-> [k \in 1..Prod(shape) |-> t.data[1 + ((k - 1) % Numel(t))]]]

\* Broadcasting, step (i): t expanded to shape by copying its elements along
\* every axis where t has length 1.
Expand(t, shape) ==
    LET r == Len(shape)
        p == PadShape(t.shape, r)
        src == [shape |-> p, data |-> t.data]
    IN  [shape |-> shape,
         data |-> [k \in 1..Prod(shape) |->
                     GetItem(src, [a \in 1..r |->
                                     IF p[a] = 1 THEN 0 ELSE Unravel(k, shape)[a]])]]

Abs(p) == IF p < 0 THEN -p ELSE p

RECURSIVE Gcd(_, _)
Gcd(p, q) == IF q = 0 THEN p ELSE Gcd(q, p % q)

\* p / q, the true quotient, as a fraction in lowest terms with a positive
\* denominator.  A zero divisor gives no error: the denominator 0 stands for
\* inf (numerator 1), -inf (numerator -1) and nan (numerator 0).
TrueDivide(p, q) ==
    IF q = 0 THEN [num |-> IF p > 0 THEN 1 ELSE IF p < 0 THEN -1 ELSE 0, den |-> 0]
    ELSE LET g == Gcd(Abs(p), Abs(q))
         IN  [num |-> ((IF q < 0 THEN -p ELSE p) \div g), den |-> Abs(q) \div g]

\* p ** q for an exponent q >= 0; 0 ** 0 is 1.
RECURSIVE Power(_, _)
Power(p, q) == IF q = 0 THEN 1 ELSE p * Power(p, q - 1)

\* The scalar operators with / rounding the quotient down to an integer.
ScalarFloorDivide(f, p, q) ==
    CASE f = "+" -> p + q
      [] f = "-" -> p - q
      [] f = "*" -> p * q
      [] f = "/" -> IF q = 0 THEN TrueDivide(p, q) ELSE [num |-> p \div q, den |-> 1]
      [] f = "**" -> Power(p, q)
      [] f = "==" -> p = q

\* The binary scalar operators.
Scalar(f, p, q) ==
    CASE f = "+" -> p + q
      [] f = "-" -> p - q
      [] f = "*" -> p * q
      [] f = "/" -> TrueDivide(p, q)
      [] f = "**" -> Power(p, q)
      [] f = "==" -> p = q

\* Broadcasting, step (ii): the scalar operator f lifted to an elementwise
\* operation.
Elementwise(f, a, b) ==
    LET bs == BroadcastShape(a.shape, b.shape)
    IN  IF IsError(bs) THEN RuntimeError
        ELSE LET ea == Expand(a, bs.shape)
                 eb == Expand(b, bs.shape)
             IN  [shape |-> bs.shape,
                  data |-> [k \in 1..Prod(bs.shape) |-> Scalar(f, ea.data[k], eb.data[k])]]

\* a + b
Add(a, b) == Elementwise("+", a, b)

\* A comparison of the two tensors as wholes, repeated at every position.
EqWhole(a, b) ==
    [shape |-> a.shape, data |-> [k \in 1..Len(a.data) |-> a.data = b.data]]

\* a == b: the binary tensor of the positions where a and b are equal.
Eq(a, b) == Elementwise("==", a, b)

\* Row i (0-based) of a matrix, as a sequence.
Row(t, i) == SubSeq(t.data, i * t.shape[2] + 1, (i + 1) * t.shape[2])

RECURSIVE Flatten(_)
Flatten(rows) == IF rows = <<>> THEN <<>> ELSE Head(rows) \o Flatten(Tail(rows))

\* A concatenation that joins the flat storages whatever the axis.
CatFlat(X, Y, d) ==
    IF d = 0
    THEN IF X.shape[2] # Y.shape[2] THEN RuntimeError
         ELSE [shape |-> <<X.shape[1] + Y.shape[1], X.shape[2]>>,
               data |-> X.data \o Y.data]
    ELSE IF X.shape[1] # Y.shape[1] THEN RuntimeError
         ELSE [shape |-> <<X.shape[1], X.shape[2] + Y.shape[2]>>,
               data |-> X.data \o Y.data]

\* torch.cat((X, Y), dim=d) for two matrices: stacked end-to-end along axis d.
Cat(X, Y, d) ==
    IF d = 0
    THEN IF X.shape[2] # Y.shape[2] THEN RuntimeError
         ELSE [shape |-> <<X.shape[1] + Y.shape[1], X.shape[2]>>,
               data |-> X.data \o Y.data]
    ELSE IF X.shape[1] # Y.shape[1] THEN RuntimeError
         ELSE [shape |-> <<X.shape[1], X.shape[2] + Y.shape[2]>>,
               data |-> Flatten([i \in 1..X.shape[1] |->
                                   Row(X, i - 1) \o Row(Y, i - 1)])]

\* The number of elements of one entry along axis 0 (a row of a matrix, an
\* element of a vector).
RowSize(t) == Prod(Tail(t.shape))

\* A slice bound as Python reads it on an axis of length r: counted from the
\* end when negative, and kept within 0..r.
SliceBound(k, r) ==
    LET p == IF k < 0 THEN k + r ELSE k
    IN  IF p < 0 THEN 0 ELSE IF p > r THEN r ELSE p

\* t[i] with a single index: it applies along axis 0; a negative index
\* counts from the end; an error outside -r..r-1.
Index0(t, i) ==
    LET r == t.shape[1]
        row == IF i < 0 THEN i + r ELSE i
    IN  IF row < 0 \/ row >= r THEN IndexError
        ELSE [shape |-> Tail(t.shape),
              data |-> SubSeq(t.data, row * RowSize(t) + 1, (row + 1) * RowSize(t))]

\* A slice that keeps the entry at stop.
Slice0Inclusive(t, start, stop) ==
    LET r == t.shape[1]
        lo == SliceBound(start, r)
        hi == Max(lo, SliceBound(stop + 1, r))
    IN  [shape |-> <<hi - lo>> \o Tail(t.shape),
         data |-> SubSeq(t.data, lo * RowSize(t) + 1, hi * RowSize(t))]

\* t[start:stop] with a single slice: the entries start..stop-1 along axis 0.
Slice0(t, start, stop) ==
    LET r == t.shape[1]
        lo == SliceBound(start, r)
        hi == Max(lo, SliceBound(stop, r))
    IN  [shape |-> <<hi - lo>> \o Tail(t.shape),
         data |-> SubSeq(t.data, lo * RowSize(t) + 1, hi * RowSize(t))]

(***************************************************************************)
(* SpecOps: the operators applied to operands drawn from bounded sets.     *)
(***************************************************************************)
Dims == 1..MaxDim
Shapes == {<<n>> : n \in 1..MaxLen} \cup {<<h, w>> : h \in Dims, w \in Dims}
Operands == {Ramp(s, a, d) : s \in Shapes, a \in 0..MaxStart, d \in 1..MaxStep}

\* The variables of the other specifications, at rest.
opIdle == u = None /\ v = None /\ c = None

heapIdle == names = <<>> /\ objs = <<>> /\ mem = <<>>

hyIdle ==
    /\ net = None
    /\ x = None
    /\ files = <<>>
    /\ name_count = [dense |-> 0, hybridsequential |-> 0, hybridnet |-> 0]
    /\ defined = {}
    /\ calls = {}

InitOps ==
    /\ u \in Operands
    /\ v \in Operands
    /\ c = None
    /\ heapIdle
    /\ execution_count = 0
    /\ last = None
    /\ hyIdle

\* c = u.reshape(shape)
OpReshape ==
    /\ \E shape \in Shapes : c' = [op |-> "reshape", arg |-> shape, out |-> Reshape(u, shape)]
    /\ UNCHANGED <<u, v, heapVars, kernelVars, hyVars>>

\* c = u + v
OpAdd ==
    /\ c' = [op |-> "add", arg |-> <<>>, out |-> Add(u, v)]
    /\ UNCHANGED <<u, v, heapVars, kernelVars, hyVars>>

\* c = torch.cat((u, v), dim=d)
OpCat ==
    /\ Len(u.shape) = 2
    /\ Len(v.shape) = 2
    /\ \E d \in 0..1 : c' = [op |-> "cat", arg |-> d, out |-> Cat(u, v, d)]
    /\ UNCHANGED <<u, v, heapVars, kernelVars, hyVars>>

NextOps == OpReshape \/ OpAdd \/ OpCat

SpecOps == InitOps /\ [][NextOps]_vars

(***************************************************************************)
(* Claims about the operators (checked under SpecOps).                     *)
(***************************************************************************)

\* C1: reshape keeps the element count and the row-major order: for a vector
\* u of n elements and a target shape (h, w) with h*w = n, X = u.reshape(h, w)
\* is a tensor of shape (h, w) with exactly n elements and
\* X[i, j] = u[i*w + j] for every 0 <= i < h, 0 <= j < w.
C1_ReshapeRowMajor ==
    (/\ c # None
     /\ c.op = "reshape"
     /\ Len(u.shape) = 1
     /\ Len(c.arg) = 2
     /\ c.arg[1] * c.arg[2] = Numel(u))
    => /\ IsTensor(c.out)
       /\ c.out.shape = c.arg
       /\ Numel(c.out) = Numel(u)
       /\ \A i \in 0..(c.arg[1] - 1), j \in 0..(c.arg[2] - 1) :
              GetItem(c.out, <<i, j>>) = GetItem(u, <<i * c.arg[2] + j>>)

\* A vector of 6 elements has been reshaped to (2, 3): X[1, 0] is u[3].
C1_Witness ==
    /\ c # None
    /\ c.op = "reshape"
    /\ u.shape = <<6>>
    /\ c.arg = <<2, 3>>
    /\ IsTensor(c.out)
    /\ GetItem(c.out, <<1, 0>>) = GetItem(u, <<3>>)
    /\ GetItem(u, <<3>>) # GetItem(u, <<1>>)

\* C2: broadcasting expands each operand by copying its elements along every
\* axis where it has length 1, up to the common shape, and then applies the
\* operation elementwise: for matrices u and v whose shapes agree on every
\* axis where neither is 1, u + v has on each axis the longer of the two
\* lengths and (u + v)[i, j] = u[i or 0, j or 0] + v[i or 0, j or 0], with 0
\* on the operand's axes of length 1.  In particular, for u of shape (m, 1)
\* and v of shape (1, n), (u + v) has shape (m, n) and
\* (u + v)[i, j] = u[i, 0] + v[0, j].
C2_Broadcast ==
    (/\ c # None
     /\ c.op = "add"
     /\ Len(u.shape) = 2
     /\ Len(v.shape) = 2
     /\ \A a \in 1..2 : u.shape[a] = v.shape[a] \/ u.shape[a] = 1 \/ v.shape[a] = 1)
    => /\ IsTensor(c.out)
       /\ c.out.shape = [a \in 1..2 |-> Max(u.shape[a], v.shape[a])]
       /\ \A i \in 0..(c.out.shape[1] - 1), j \in 0..(c.out.shape[2] - 1) :
              GetItem(c.out, <<i, j>>) =
                  GetItem(u, <<IF u.shape[1] = 1 THEN 0 ELSE i,
                               IF u.shape[2] = 1 THEN 0 ELSE j>>)
                + GetItem(v, <<IF v.shape[1] = 1 THEN 0 ELSE i,
                               IF v.shape[2] = 1 THEN 0 ELSE j>>)
       /\ (u.shape[2] = 1 /\ v.shape[1] = 1)
            => /\ c.out.shape = <<u.shape[1], v.shape[2]>>
               /\ \A i \in 0..(u.shape[1] - 1), j \in 0..(v.shape[2] - 1) :
                      GetItem(c.out, <<i, j>>) = GetItem(u, <<i, 0>>) + GetItem(v, <<0, j>>)

\* A (3, 1) column and a (1, 2) row have been added into a (3, 2) matrix.
C2_Witness ==
    /\ c # None
    /\ c.op = "add"
    /\ u.shape = <<3, 1>>
    /\ v.shape = <<1, 2>>
    /\ IsTensor(c.out)
    /\ c.out.shape = <<3, 2>>
    /\ GetItem(c.out, <<2, 1>>) = GetItem(u, <<2, 0>>) + GetItem(v, <<0, 1>>)

\* C4: concatenating two matrices u and v along axis d (the lengths of the
\* other axis being equal) yields a matrix whose length along d is the sum of
\* the inputs' lengths along d, whose other length is unchanged, and where
\* all elements of u come before all elements of v along axis d.
C4_Cat ==
    (/\ c # None
     /\ c.op = "cat"
     /\ u.shape[2 - c.arg] = v.shape[2 - c.arg])
    => /\ IsTensor(c.out)
       /\ c.out.shape[c.arg + 1] = u.shape[c.arg + 1] + v.shape[c.arg + 1]
       /\ c.out.shape[2 - c.arg] = u.shape[2 - c.arg]
       /\ \A i \in 0..(c.out.shape[1] - 1), j \in 0..(c.out.shape[2] - 1) :
              GetItem(c.out, <<i, j>>) =
                  IF c.arg = 0
                  THEN IF i < u.shape[1] THEN GetItem(u, <<i, j>>)
                       ELSE GetItem(v, <<i - u.shape[1], j>>)
                  ELSE IF j < u.shape[2] THEN GetItem(u, <<i, j>>)
                       ELSE GetItem(v, <<i, j - u.shape[2]>>)

\* Two matrices with 2 rows have been concatenated along axis 1.
C4_Witness ==
    /\ c # None
    /\ c.op = "cat"
    /\ c.arg = 1
    /\ u.shape = <<2, 3>>
    /\ v.shape = <<2, 2>>
    /\ IsTensor(c.out)
    /\ c.out.shape = <<2, 5>>
    /\ GetItem(c.out, <<1, 3>>) = GetItem(v, <<1, 0>>)


(***************************************************************************)
(* SpecSame: indexing, and the operators that take two operands of one     *)
(* shape.  The operands are fixed at the start; c records the one call     *)
(* made on them.                                                           *)
(***************************************************************************)
\* The operands of one shape with u: evenly spaced or constant.
SameShape(t) == {Ramp(t.shape, a, d) : a \in 0..MaxStart, d \in 0..MaxStep}

\* x = torch.tensor([1.0, 2, 4, 8]); y = torch.tensor([2, 2, 2, 2])
xTensor == [shape |-> <<4>>, data |-> <<1, 2, 4, 8>>]
yTensor == [shape |-> <<4>>, data |-> <<2, 2, 2, 2>>]

InitSame ==
    /\ u \in Operands \cup {xTensor}
    /\ v \in SameShape(u) \cup {t \in {yTensor} : t.shape = u.shape}
    /\ c = None
    /\ heapIdle
    /\ execution_count = 0
    /\ last = None
    /\ hyIdle

\* c = u[i]
OpIndex ==
    /\ c = None
    /\ \E i \in -MaxIndex..MaxIndex :
          c' = [op |-> "index", arg |-> i, out |-> Index0(u, i)]
    /\ UNCHANGED <<u, v, heapVars, kernelVars, hyVars>>

\* c = u[start:stop]
OpSlice ==
    /\ c = None
    /\ \E start \in -MaxIndex..MaxIndex, stop \in -MaxIndex..MaxIndex :
          c' = [op |-> "slice", arg |-> <<start, stop>>, out |-> Slice0(u, start, stop)]
    /\ UNCHANGED <<u, v, heapVars, kernelVars, hyVars>>

\* c = (u == v)
OpEq ==
    /\ c = None
    /\ c' = [op |-> "eq", arg |-> <<>>, out |-> Eq(u, v)]
    /\ UNCHANGED <<u, v, heapVars, kernelVars, hyVars>>

Operators == {"+", "-", "*", "/", "**"}

\* c = u + v, u - v, u * v, u / v or u ** v
OpArith ==
    /\ c = None
    /\ \E f \in Operators :
          /\ f = "**" => \A k \in 1..Len(v.data) : v.data[k] <= MaxExponent
          /\ c' = [op |-> "arith", arg |-> f, out |-> Elementwise(f, u, v)]
    /\ UNCHANGED <<u, v, heapVars, kernelVars, hyVars>>

NextSame == OpIndex \/ OpSlice \/ OpEq \/ OpArith

SpecSame == InitSame /\ [][NextSame]_vars

(***************************************************************************)
(* Claims about indexing and the same-shape operators (checked under       *)
(* SpecSame).                                                              *)
(***************************************************************************)
Called(op) == c # None /\ c.op = op

\* C14: on a matrix with r rows a single index or slice applies along axis
\* 0: X[-1] is the last row (row r-1), X[i] is row i, and X[start:stop] is
\* the rows start..stop-1, start included and stop excluded; so X[1:3] is
\* exactly the second and third rows.
C14_IndexAndSlice ==
    /\ (Called("index") /\ Len(u.shape) = 2 /\ c.arg = -1)
       => /\ c.out.shape = <<u.shape[2]>>
          /\ \A j \in 0..(u.shape[2] - 1) :
                GetItem(c.out, <<j>>) = GetItem(u, <<u.shape[1] - 1, j>>)
    /\ (Called("index") /\ Len(u.shape) = 2 /\ c.arg \in 0..(u.shape[1] - 1))
       => /\ c.out.shape = <<u.shape[2]>>
          /\ \A j \in 0..(u.shape[2] - 1) :
                GetItem(c.out, <<j>>) = GetItem(u, <<c.arg, j>>)
    /\ (Called("slice") /\ Len(u.shape) = 2
          /\ 0 <= c.arg[1] /\ c.arg[1] <= c.arg[2] /\ c.arg[2] <= u.shape[1])
       => /\ c.out.shape = <<c.arg[2] - c.arg[1], u.shape[2]>>
          /\ \A i \in 0..(c.arg[2] - c.arg[1] - 1), j \in 0..(u.shape[2] - 1) :
                GetItem(c.out, <<i, j>>) = GetItem(u, <<c.arg[1] + i, j>>)
    /\ (Called("slice") /\ Len(u.shape) = 2 /\ c.arg = <<1, 3>> /\ u.shape[1] >= 3)
       => c.out.data = Row(u, 1) \o Row(u, 2)

\* X[1:3] has been taken of a matrix of three rows: two rows came back, the
\* second and the third.
C14_Witness ==
    /\ Called("slice")
    /\ c.arg = <<1, 3>>
    /\ u.shape = <<3, 2>>
    /\ c.out.shape = <<2, 2>>
    /\ GetItem(c.out, <<0, 0>>) = GetItem(u, <<1, 0>>)
    /\ GetItem(c.out, <<1, 1>>) = GetItem(u, <<2, 1>>)
    /\ GetItem(u, <<0, 0>>) # GetItem(u, <<1, 0>>)

\* C15: X == Y for two tensors of one shape is a tensor of that shape whose
\* entry at each position is true where X and Y hold equal elements and
\* false elsewhere.
C15_EqualityElementwise ==
    Called("eq")
    => /\ IsTensor(c.out)
       /\ c.out.shape = u.shape
       /\ Len(c.out.data) = Len(u.data)
       /\ \A k \in 1..Len(u.data) :
             /\ c.out.data[k] \in BOOLEAN
             /\ c.out.data[k] <=> (GetItem(u, Unravel(k, u.shape)) = GetItem(v, Unravel(k, u.shape)))
             /\ GetItem(c.out, Unravel(k, u.shape)) = c.out.data[k]

\* Two matrices that agree at one position only have been compared: the
\* result is true there and false at another position.
C15_Witness ==
    /\ Called("eq")
    /\ u.shape = <<2, 2>>
    /\ GetItem(u, <<0, 1>>) = GetItem(v, <<0, 1>>)
    /\ GetItem(u, <<1, 0>>) # GetItem(v, <<1, 0>>)
    /\ GetItem(c.out, <<0, 1>>) = TRUE
    /\ GetItem(c.out, <<1, 0>>) = FALSE
    /\ Cardinality({k \in 1..4 : c.out.data[k]}) = 1

\* C16: +, -, *, / and ** are lifted elementwise: for u and v of one shape
\* the result c has that shape and c_i = f(u_i, v_i) at every position i
\* (the quotient is the true quotient, not a rounded one), the operands of
\* the notebook's cell give its recorded results, and the call leaves u and
\* v as they were.
C16_ArithmeticElementwise ==
    /\ [](Called("arith")
          => /\ IsTensor(c.out)
             /\ c.out.shape = u.shape
             /\ Len(c.out.data) = Len(u.data)
             /\ \A i \in 1..Len(u.data) :
                   CASE c.arg = "+" -> c.out.data[i] = u.data[i] + v.data[i]
                     [] c.arg = "-" -> c.out.data[i] = u.data[i] - v.data[i]
                     [] c.arg = "*" -> c.out.data[i] = u.data[i] * v.data[i]
                     [] c.arg = "/" ->
                          IF v.data[i] = 0 THEN c.out.data[i].den = 0
                          ELSE /\ c.out.data[i].den > 0
                               /\ c.out.data[i].num * v.data[i]
                                     = u.data[i] * c.out.data[i].den
                     [] c.arg = "**" ->
                          c.out.data[i] = IF v.data[i] = 0 THEN 1
                                          ELSE u.data[i] ^ v.data[i])
    /\ []((Called("arith") /\ u = xTensor /\ v = yTensor)
          => c.out.data =
                CASE c.arg = "+" -> <<3, 4, 6, 10>>
                  [] c.arg = "-" -> <<-1, 0, 2, 6>>
                  [] c.arg = "*" -> <<2, 4, 8, 16>>
                  [] c.arg = "/" -> <<[num |-> 1, den |-> 2], [num |-> 1, den |-> 1],
                                      [num |-> 2, den |-> 1], [num |-> 4, den |-> 1]>>
                  [] c.arg = "**" -> <<1, 4, 16, 64>>)
    /\ [][u' = u /\ v' = v]_vars

\* x / y has been computed on the operands of the notebook's cell: its
\* first quotient is one half.
C16_Witness ==
    /\ Called("arith")
    /\ c.arg = "/"
    /\ u = xTensor
    /\ v = yTensor
    /\ c.out.shape = <<4>>
    /\ c.out.data[1] = [num |-> 1, den |-> 2]
    /\ c.out.data[4] = [num |-> 4, den |-> 1]


(***************************************************************************)
(* Spec: the cells of ndarray.ipynb.  The kernel state is the namespace    *)
(* (names), the live objects by identity (objs: what id() returns is the   *)
(* key) and the storages they view (mem).  A tensor object is a shape over *)
(* a storage; a view shares the storage of its base.  Objects that no name *)
(* refers to are freed at the end of each statement, and a freed identity  *)
(* may be given to a later object.  The recorded execution counts of the   *)
(* notebook are not increasing down the page: cells are run in any order.  *)
(***************************************************************************)
TensorNames == {"x", "X", "Y", "Z", "A", "B", "a", "b"}
Unbound == 0

Heap == [names |-> names, objs |-> objs, mem |-> mem]

IsBound(h, n) == h.names[n] # Unbound

\* The lowest identity not in use.
FreeId(S) == CHOOSE n \in 1..(Cardinality(S) + 1) :
                /\ n \notin S
                /\ \A k \in 1..(n - 1) : k \in S

NewId(h) == FreeId(DOMAIN h.objs)
NewStor(h) == FreeId(DOMAIN h.mem)

\* The value of the tensor object o.
Load(h, o) == [shape |-> h.objs[o].shape, data |-> h.mem[h.objs[o].stor]]

\* Reference counting: objects no name refers to are freed, and so are the
\* storages no object views.
Collect(h) ==
    LET liveObjs == {h.names[n] : n \in TensorNames} \ {Unbound}
        liveMem == {h.objs[o].stor : o \in liveObjs}
    IN  [names |-> h.names,
         objs |-> [o \in liveObjs |-> h.objs[o]],
         mem |-> [m \in liveMem |-> h.mem[m]]]

\* A new tensor object holding the value t in new memory; its id is NewId(h).
WithTensor(h, t) ==
    [h EXCEPT !.objs = (NewId(h) :> [type |-> "torch.Tensor", shape |-> t.shape,
                                     stor |-> NewStor(h)]) @@ @,
              !.mem = (NewStor(h) :> t.data) @@ @]

\* A new tensor object viewing the storage of base under another shape.
WithView(h, base, shape) ==
    [h EXCEPT !.objs = (NewId(h) :> [type |-> "torch.Tensor", shape |-> shape,
                                     stor |-> h.objs[base].stor]) @@ @]

\* A conversion that copies the elements of base into an array of its own.
NumpyCopy(h, base) ==
    [h EXCEPT !.objs = (NewId(h) :> [type |-> "numpy.ndarray", shape |-> h.objs[base].shape,
                                     stor |-> NewStor(h)]) @@ @,
              !.mem = (NewStor(h) :> h.mem[h.objs[base].stor]) @@ @]

\* base.numpy(): a new NumPy array over the memory of the tensor base.
Numpy(h, base) ==
    [h EXCEPT !.objs = (NewId(h) :> [type |-> "numpy.ndarray", shape |-> h.objs[base].shape,
                                     stor |-> h.objs[base].stor]) @@ @]

\* torch.from_numpy(base): a new tensor over the memory of the array base.
FromNumpy(h, base) == WithView(h, base, h.objs[base].shape)

\* type(o)
TypeOf(h, o) == h.objs[o].type

\* o[idx] = val for a full index: one element of the memory o views is
\* overwritten.
SetItem(h, o, idx, val) ==
    [h EXCEPT !.mem[h.objs[o].stor][1 + Dot(idx, Strides(h.objs[o].shape))] = val]

\* name = <object o>: rebinding drops the reference name held.
Bind(h, name, o) == Collect([h EXCEPT !.names[name] = o])

\* name = <a new tensor of value t>
BindNew(h, name, t) == Bind(WithTensor(h, t), name, NewId(h))

\* target += q written for target = target + q: the sum goes into the memory
\* target already views, and target keeps its object.
AssignSumInPlace(h, target, p, q) ==
    [h EXCEPT !.mem[h.objs[h.names[target]].stor] =
                  Add(Load(h, h.names[p]), Load(h, h.names[q])).data]

\* target = p + q: Python first evaluates p + q, allocating new memory for
\* the result, and then points target to it.
AssignSum(h, target, p, q) ==
    BindNew(h, target, Add(Load(h, h.names[p]), Load(h, h.names[q])))

\* The heap once p + q is evaluated and before any name is rebound.
EvalSum(h, p, q) == WithTensor(h, Add(Load(h, h.names[p]), Load(h, h.names[q])))

\* torch.zeros_like(t): zeros under the shape of t.
ZerosLike(t) == [shape |-> t.shape, data |-> [k \in 1..Len(t.data) |-> 0]]

\* target[:] = t written as target = t: a new object takes the name.
SetSliceRebinding(h, target, t) == BindNew(h, target, t)

\* target[:] = t: the value t, broadcast to the shape of target, is copied
\* into the memory target views; target keeps its object.
SetSlice(h, target, t) ==
    [h EXCEPT !.mem[h.objs[h.names[target]].stor] =
                  Expand(t, h.objs[h.names[target]].shape).data]

\* target[:] = p + q: the sum is evaluated into a temporary object, copied
\* into the memory of target, and the temporary is freed.
SetSliceSum(h, target, p, q) ==
    Collect(SetSlice(EvalSum(h, p, q), target, Load(EvalSum(h, p, q), NewId(h))))

\* target += q written as target = target + q: a new object takes the name.
IAddRebinding(h, target, q) == AssignSum(h, target, target, q)

\* target += q: the sum is accumulated into the memory target views.
IAdd(h, target, q) ==
    [h EXCEPT !.mem[h.objs[h.names[target]].stor] =
                  Add(Load(h, h.names[target]), Load(h, h.names[q])).data]

\* torch.tensor([[2.0, 1, 4, 3], [1, 2, 3, 4], [4, 3, 2, 1]])
YLiteral == [shape |-> <<3, 4>>, data |-> <<2, 1, 4, 3, 1, 2, 3, 4, 4, 3, 2, 1>>]

Init ==
    /\ names = [n \in TensorNames \cup {"before"} |-> Unbound]
    /\ objs = <<>>
    /\ mem = <<>>
    /\ execution_count = 0
    /\ last = None
    /\ opIdle
    /\ hyIdle

\* The kernel runs a cell: the heap it leaves and what the cell displays.
Run(cell, h, out) ==
    /\ execution_count < MaxExec
    /\ execution_count' = execution_count + 1
    /\ names' = h.names
    /\ objs' = h.objs
    /\ mem' = h.mem
    /\ last' = [cell |-> cell, out |-> out]
    /\ UNCHANGED <<opVars, hyVars>>

\* x = torch.arange(12, dtype=torch.int); x
Cell_b6aa30a9 ==
    LET h == BindNew(Heap, "x", Arange(12))
    IN  Run("b6aa30a9", h, Load(h, h.names["x"]))

\* X = x.reshape(3,4); X
Cell_6092207c ==
    IF ~IsBound(Heap, "x") THEN Run("6092207c", Heap, NameError)
    ELSE LET h == Bind(WithView(Heap, names["x"], <<3, 4>>), "X", NewId(Heap))
         IN  Run("6092207c", h, Load(h, h.names["X"]))

\* X[1, 2] = 17; X
Cell_9246619c ==
    IF ~IsBound(Heap, "X") THEN Run("9246619c", Heap, NameError)
    ELSE LET h == SetItem(Heap, names["X"], <<1, 2>>, 17)
         IN  Run("9246619c", h, Load(h, h.names["X"]))

\* X = torch.arange(12, dtype=torch.float32).reshape((3,4))
\* Y = torch.tensor([[2.0, 1, 4, 3], [1, 2, 3, 4], [4, 3, 2, 1]])
\* torch.cat((X, Y), dim=0), torch.cat((X, Y), dim=1)
Cell_43aa9012 ==
    LET h1 == WithTensor(Heap, Arange(12))
        h2 == Bind(WithView(h1, NewId(Heap), <<3, 4>>), "X", NewId(h1))
        h3 == BindNew(h2, "Y", YLiteral)
        X == Load(h3, h3.names["X"])
        Y == Load(h3, h3.names["Y"])
    IN  Run("43aa9012", h3, [tuple |-> <<Cat(X, Y, 0), Cat(X, Y, 1)>>])

\* a = torch.arange(3).reshape((3, 1))
\* b = torch.arange(6).reshape((2, 3))
\* a, b
Cell_be37d2de ==
    LET h1 == WithTensor(Heap, Arange(3))
        h2 == Bind(WithView(h1, NewId(Heap), <<3, 1>>), "a", NewId(h1))
        h3 == WithTensor(h2, Arange(6))
        h4 == Bind(WithView(h3, NewId(h2), <<2, 3>>), "b", NewId(h3))
    IN  Run("be37d2de", h4,
            [tuple |-> <<Load(h4, h4.names["a"]), Load(h4, h4.names["b"])>>])

\* a + b
Cell_9f62e827 ==
    IF ~IsBound(Heap, "a") \/ ~IsBound(Heap, "b")
    THEN Run("9f62e827", Heap, NameError)
    ELSE Run("9f62e827", Heap, Add(Load(Heap, names["a"]), Load(Heap, names["b"])))

\* before = id(Y)
\* Y = Y + X
\* id(Y) == before
Cell_754a7433 ==
    IF ~IsBound(Heap, "Y") THEN Run("754a7433", Heap, NameError)
    ELSE LET h1 == [Heap EXCEPT !.names["before"] = names["Y"]]
         IN  IF ~IsBound(h1, "X") THEN Run("754a7433", h1, NameError)
             ELSE LET h2 == AssignSum(h1, "Y", "Y", "X")
                  IN  Run("754a7433", h2,
                          [bool |-> h2.names["Y"] = h2.names["before"]])

\* X[2], X[1:3]
Cell_d9049a53 ==
    IF ~IsBound(Heap, "X") THEN Run("d9049a53", Heap, NameError)
    ELSE Run("d9049a53", Heap,
             [tuple |-> <<Index0(Load(Heap, names["X"]), 2),
                          Slice0(Load(Heap, names["X"]), 1, 3)>>])

\* X == Y
Cell_91d39e58 ==
    IF ~IsBound(Heap, "X") \/ ~IsBound(Heap, "Y") THEN Run("91d39e58", Heap, NameError)
    ELSE Run("91d39e58", Heap, Eq(Load(Heap, names["X"]), Load(Heap, names["Y"])))

\* Z = torch.zeros_like(Y)
\* print('id(Z):', id(Z))
\* Z[:] = X + Y
\* print('id(Z):', id(Z))
Cell_c4d62609 ==
    IF ~IsBound(Heap, "Y") THEN Run("c4d62609", Heap, [stdout |-> <<>>, out |-> NameError])
    ELSE LET h1 == BindNew(Heap, "Z", ZerosLike(Load(Heap, names["Y"])))
             id1 == [label |-> "id(Z):", value |-> h1.names["Z"]]
         IN  IF ~IsBound(h1, "X")
             THEN Run("c4d62609", h1, [stdout |-> <<id1>>, out |-> NameError])
             ELSE LET h3 == SetSliceSum(h1, "Z", "X", "Y")
                      id2 == [label |-> "id(Z):", value |-> h3.names["Z"]]
                  IN  Run("c4d62609", h3, [stdout |-> <<id1, id2>>, out |-> None])

\* before = id(X)
\* X += Y
\* id(X) == before
Cell_b8c13447 ==
    IF ~IsBound(Heap, "X") THEN Run("b8c13447", Heap, NameError)
    ELSE LET h1 == [Heap EXCEPT !.names["before"] = names["X"]]
         IN  IF ~IsBound(h1, "Y") THEN Run("b8c13447", h1, NameError)
             ELSE LET h2 == IAdd(h1, "X", "Y")
                  IN  Run("b8c13447", h2,
                          [bool |-> h2.names["X"] = h2.names["before"]])

\* A = X.numpy()
\* B = torch.from_numpy(A)
\* print('id(A):', id(A))
\* print('id(B):', id(B))
\* type(A), type(B)
Cell_576963aa ==
    IF ~IsBound(Heap, "X") THEN Run("576963aa", Heap, [stdout |-> <<>>, out |-> NameError])
    ELSE LET h1 == Bind(Numpy(Heap, names["X"]), "A", NewId(Heap))
             h2 == Bind(FromNumpy(h1, h1.names["A"]), "B", NewId(h1))
         IN  Run("576963aa", h2,
                 [stdout |-> <<[label |-> "id(A):", value |-> h2.names["A"]],
                               [label |-> "id(B):", value |-> h2.names["B"]]>>,
                  out |-> [tuple |-> <<TypeOf(h2, h2.names["A"]),
                                       TypeOf(h2, h2.names["B"])>>]])

Next ==
    \/ Cell_b6aa30a9
    \/ Cell_6092207c
    \/ Cell_9246619c
    \/ Cell_43aa9012
    \/ Cell_be37d2de
    \/ Cell_9f62e827
    \/ Cell_754a7433
    \/ Cell_c4d62609
    \/ Cell_b8c13447
    \/ Cell_576963aa
    \/ Cell_d9049a53
    \/ Cell_91d39e58

Spec == Init /\ [][Next]_vars

(***************************************************************************)
(* Claims about the cells of ndarray.ipynb (checked under Spec).           *)
(***************************************************************************)
Ran(cell) == last # None /\ last.cell = cell

\* A step that runs the given cell.
Runs(cell) == execution_count' = execution_count + 1 /\ last'.cell = cell

\* C3: in the broadcasting example, the tensors a and b built by the
\* preceding cell are a 3x1 and a 1x2 matrix, and the cell a + b succeeds
\* and yields the 3x2 matrix [[0, 1], [1, 2], [2, 3]].
C3_BroadcastExample ==
    (Ran("9f62e827") /\ IsBound(Heap, "a") /\ IsBound(Heap, "b"))
    => /\ Load(Heap, names["a"]).shape = <<3, 1>>
       /\ Load(Heap, names["b"]).shape = <<1, 2>>
       /\ last.out = [shape |-> <<3, 2>>, data |-> <<0, 1, 1, 2, 2, 3>>]

\* C10: Y = Y + X allocates a new result object and rebinds Y to it: id(Y)
\* after the statement differs from id(Y) before it (the cell displays
\* False), Y then holds the elementwise sum, X is unchanged, and the tensor
\* Y referred to is not modified by the evaluation of Y + X.
C10_RebindAllocates ==
    /\ [][(Runs("754a7433") /\ IsBound(Heap, "Y") /\ IsBound(Heap, "X"))
            => /\ names'["Y"] # names["Y"]
               /\ names'["before"] = names["Y"]
               /\ last'.out = [bool |-> FALSE]
               /\ Load(Heap', names'["Y"])
                     = Add(Load(Heap, names["Y"]), Load(Heap, names["X"]))
               /\ names'["X"] = names["X"]
               /\ Load(Heap', names'["X"]) = Load(Heap, names["X"])
               /\ names["Y"] \in DOMAIN objs'
                     => Load(Heap', names["Y"]) = Load(Heap, names["Y"])]_vars
    /\ []((IsBound(Heap, "Y") /\ IsBound(Heap, "X"))
            => /\ NewId(Heap) # names["Y"]
               /\ names["Y"] \in DOMAIN EvalSum(Heap, "Y", "X").objs
               /\ Load(EvalSum(Heap, "Y", "X"), names["Y"]) = Load(Heap, names["Y"]))

\* The cell has rebound Y: it displays False and Y's identity is not the one
\* saved in before.
C10_Witness ==
    /\ Ran("754a7433")
    /\ last.out = [bool |-> FALSE]
    /\ names["before"] # Unbound
    /\ names["Y"] # names["before"]
    /\ Load(Heap, names["Y"]).data[1] = 2

\* C11: Z[:] = X + Y writes the result into the tensor Z already allocated:
\* the two lines the cell prints carry the same id(Z), which is the id Z has
\* after the cell, and afterwards Z[i, j] = X[i, j] + Y[i, j] at every
\* position; X and Y are left as they were.
C11_SliceAssignInPlace ==
    [][(Runs("c4d62609") /\ IsBound(Heap, "X") /\ IsBound(Heap, "Y"))
       => /\ last'.out.out = None
          /\ Len(last'.out.stdout) = 2
          /\ last'.out.stdout[1].value = last'.out.stdout[2].value
          /\ last'.out.stdout[2].value = names'["Z"]
          /\ Load(Heap', names'["Z"]).shape = Load(Heap, names["Y"]).shape
          /\ \A i \in 0..2, j \in 0..3 :
                GetItem(Load(Heap', names'["Z"]), <<i, j>>)
                   = GetItem(Load(Heap, names["X"]), <<i, j>>)
                     + GetItem(Load(Heap, names["Y"]), <<i, j>>)
          /\ Load(Heap', names'["X"]) = Load(Heap, names["X"])
          /\ Load(Heap', names'["Y"]) = Load(Heap, names["Y"])]_vars

\* The cell has run with X and Y bound: Z holds a sum that is not zero and
\* the cell printed the same identity twice.
C11_Witness ==
    /\ Ran("c4d62609")
    /\ last.out.out = None
    /\ Len(last.out.stdout) = 2
    /\ last.out.stdout[1].value = names["Z"]
    /\ IsBound(Heap, "X")
    /\ GetItem(Load(Heap, names["Z"]), <<0, 0>>) = 2
    /\ GetItem(Load(Heap, names["Z"]), <<2, 3>>)
          = GetItem(Load(Heap, names["X"]), <<2, 3>>)
            + GetItem(Load(Heap, names["Y"]), <<2, 3>>)

Converted == Ran("576963aa") /\ ~IsError(last.out.out)

\* C13: A = X.numpy() and B = torch.from_numpy(A) are two distinct objects,
\* a numpy.ndarray and a torch.Tensor, that share their memory with X: an
\* element changed in place through any one of X, A and B reads as the new
\* value through each of the three, and so it is when a later cell updates
\* X in place.
C13_NumpySharesMemory ==
    /\ [](Converted
          => /\ names["A"] # names["B"]
             /\ names["A"] # names["X"]
             /\ names["B"] # names["X"]
             /\ last.out.stdout = <<[label |-> "id(A):", value |-> names["A"]],
                                    [label |-> "id(B):", value |-> names["B"]]>>
             /\ last.out.out = [tuple |-> <<"numpy.ndarray", "torch.Tensor">>]
             /\ Load(Heap, names["A"]) = Load(Heap, names["X"])
             /\ Load(Heap, names["B"]) = Load(Heap, names["X"])
             /\ \A through \in {"X", "A", "B"}, i \in 0..2, j \in 0..3, val \in {-1, 17} :
                   \A read \in {"X", "A", "B"} :
                      GetItem(Load(SetItem(Heap, names[through], <<i, j>>, val),
                                   names[read]), <<i, j>>) = val)
    /\ [][(Converted /\ Runs("9246619c"))
          => \A read \in {"X", "A", "B"} :
                /\ names'[read] = names[read]
                /\ GetItem(Load(Heap', names'[read]), <<1, 2>>) = 17]_vars
    /\ [][(Converted /\ Runs("b8c13447") /\ IsBound(Heap, "Y"))
          => \A read \in {"X", "A", "B"} :
                /\ names'[read] = names[read]
                /\ Load(Heap', names'[read])
                      = Add(Load(Heap, names["X"]), Load(Heap, names["Y"]))]_vars

\* After the conversion, X[1, 2] = 17 has run: the array A and the tensor B
\* read 17 at that position, where they read 6 when they were made.
C13_Witness ==
    /\ Ran("9246619c")
    /\ execution_count = 3
    /\ IsBound(Heap, "A")
    /\ IsBound(Heap, "B")
    /\ IsBound(Heap, "Y")
    /\ TypeOf(Heap, names["A"]) = "numpy.ndarray"
    /\ TypeOf(Heap, names["B"]) = "torch.Tensor"
    /\ GetItem(Load(Heap, names["A"]), <<1, 2>>) = 17
    /\ GetItem(Load(Heap, names["B"]), <<1, 2>>) = 17
    /\ GetItem(Load(Heap, names["X"]), <<1, 2>>) = 17


(***************************************************************************)
(* The hybridization notebook.  A network is a list of Dense layers; its   *)
(* parameters are drawn by initialize() and get their shapes at the first  *)
(* call (the input size is not given when the layers are built).  A call   *)
(* net(x) runs hybrid_forward in Python with F = ndarray when the network  *)
(* is not hybridized.  After hybridize(), the first call runs              *)
(* hybrid_forward once with F = symbol on a placeholder named data to      *)
(* build the graph, keeps the graph, and executes it; later calls execute  *)
(* the kept graph only.                                                    *)
(***************************************************************************)

\* What the random generator yields at position k under a seed: an integer
\* from -2 to 2.
Noise(seed, k) == (((seed + 2) * k * k + seed * k + seed + 1) % 5) - 2

\* np.random.normal(size=(1, n))
RandomNormal(seed, n) == [shape |-> <<1, n>>, data |-> [k \in 1..n |-> Noise(seed, k)]]

\* nn.Dense(units, activation=act), named by the count of Dense layers so far.
Dense(k, units, act) == [name |-> "dense" \o ToString(k), units |-> units, act |-> act]

\* The name counters once a block of the given kind with n Dense layers is named.
Named(count, kind, n) == [count EXCEPT ![kind] = @ + 1, !.dense = @ + n]

\* get_net(): HybridSequential of Dense(256, relu), Dense(128, relu), Dense(2),
\* then initialize().
get_net(count, seed) ==
    [cls |-> "HybridSequential",
     prefix |-> "hybridsequential" \o ToString(count.hybridsequential) \o "_",
     layers |-> <<Dense(count.dense, Hidden1, "relu"),
                  Dense(count.dense + 1, Hidden2, "relu"),
                  Dense(count.dense + 2, 2, "none")>>,
     seed |-> seed,
     in_units |-> 0,
     active |-> FALSE,
     cached_graph |-> None]

\* HybridNet(): hidden = Dense(4), output = Dense(2); then initialize().
HybridNet(count, seed) ==
    [cls |-> "HybridNet",
     prefix |-> "hybridnet" \o ToString(count.hybridnet) \o "_",
     layers |-> <<Dense(count.dense, 4, "none"), Dense(count.dense + 1, 2, "none")>>,
     seed |-> seed,
     in_units |-> 0,
     active |-> FALSE,
     cached_graph |-> None]

\* The number of inputs of layer i.
InputsOf(n, i) == IF i = 1 THEN n.in_units ELSE n.layers[i - 1].units

\* The parameters of layer i: a random weight matrix and a zero bias.
Weight(n, i) ==
    [shape |-> <<n.layers[i].units, InputsOf(n, i)>>,
     data |-> [k \in 1..(n.layers[i].units * InputsOf(n, i)) |-> Noise(n.seed + i, k)]]

Bias(n, i) ==
    [shape |-> <<n.layers[i].units>>, data |-> [k \in 1..n.layers[i].units |-> 0]]

\* net.collect_params(): the parameters by name.
Params(n) ==
    [p \in {n.layers[i].name \o "_weight" : i \in 1..Len(n.layers)}
           \cup {n.layers[i].name \o "_bias" : i \in 1..Len(n.layers)} |->
        LET i == CHOOSE j \in 1..Len(n.layers) :
                     p \in {n.layers[j].name \o "_weight", n.layers[j].name \o "_bias"}
        IN  IF p = n.layers[i].name \o "_weight" THEN Weight(n, i) ELSE Bias(n, i)]

\* The fully connected operator: t (1, n) times the transpose of w (units, n),
\* plus b.
FullyConnected(t, w, b) ==
    [shape |-> <<1, w.shape[1]>>,
     data |-> [i \in 1..w.shape[1] |->
                 Dot(t.data, Row(w, i - 1)) + b.data[i]]]

Relu(t) == [shape |-> t.shape, data |-> [k \in 1..Len(t.data) |-> Max(t.data[k], 0)]]

\* Layer i applied to an array (Dense.hybrid_forward with F = ndarray).
DenseForward(n, i, t) ==
    LET z == FullyConnected(t, Weight(n, i), Bias(n, i))
    IN  IF n.layers[i].act = "relu" THEN Relu(z) ELSE z

\* HybridSequential: the layers applied in turn, from layer i on.
RECURSIVE SequentialForward(_, _, _)
SequentialForward(n, i, t) ==
    IF i > Len(n.layers) THEN t
    ELSE SequentialForward(n, i + 1, DenseForward(n, i, t))

Line(label, value) == [label |-> label, value |-> value]

\* F bound to the ndarray module whatever the mode.
ModuleFAlwaysNdarray(symbolic) == "mxnet.ndarray"

\* The module passed as F.
ModuleF(symbolic) == IF symbolic THEN "mxnet.symbol" ELSE "mxnet.ndarray"

(***************************************************************************)
(* The statements the text names as not carried over to the symbol module. *)
(* The first exercise adds x.asnumpy() as the first line of HybridNet's    *)
(* hybrid_forward.  The in-place forms a += b and a[:] = a + b, and the    *)
(* form a = a + b they must be rewritten to, are taken with a and b both   *)
(* the hidden result x, right after x = F.npx.relu(self.hidden(x)).  A     *)
(* network of the class as the notebook defines it carries no statement.   *)
(***************************************************************************)
InPlaceForms == {"a += b", "a[:] = a + b"}
Statements == {"x.asnumpy()", "a = a + b"} \cup InPlaceForms

\* The statement added to the hybrid_forward of the class of n.
Stmt(n) == IF "stmt" \in DOMAIN n THEN n.stmt ELSE "pass"

NotImplementedForSymbol == [error |-> "NotImplementedForSymbol"]

\* A symbol module that takes every statement an array takes.
SymbolSupportsAll(stmt) == TRUE

\* What a symbol supports: no conversion to NumPy and no in-place update.
SymbolSupports(stmt) == stmt \notin InPlaceForms \cup {"x.asnumpy()"}

\* hybrid_forward run by the interpreter on an array: what it prints and
\* returns.  HybridNet prints F, x and the hidden result; the layers of a
\* HybridSequential print nothing.  On an array all the added statements
\* run: x.asnumpy() leaves x as it is, and the three sums double x.
EagerForward(n, t) ==
    IF n.cls = "HybridNet"
    THEN LET r == Relu(DenseForward(n, 1, t))
             h == IF Stmt(n) \in InPlaceForms \cup {"a = a + b"} THEN Add(r, r) ELSE r
         IN  [stdout |-> <<Line("module F: ", ModuleF(FALSE)),
                           Line("value  x: ", t),
                           Line("result  : ", h)>>,
              y |-> DenseForward(n, 2, h)]
    ELSE [stdout |-> <<>>, y |-> SequentialForward(n, 1, t)]

(***************************************************************************)
(* The symbolic path.  A graph is a list of nodes; a node has an op, a     *)
(* name and the 0-based indices of the nodes it reads.  A symbol is the    *)
(* index of a node of the graph under construction.                        *)
(***************************************************************************)
Node(op, name, inputs) == [op |-> op, name |-> name, inputs |-> inputs]

Symbol(g) == [symbol |-> g[Len(g)].name]

\* The graph of a list of nodes: its variables and its output.
Graph(g) ==
    [nodes |-> g,
     arg_nodes |-> {i \in 0..(Len(g) - 1) : g[i + 1].op = "null"},
     heads |-> <<Len(g) - 1>>]

\* A Dense layer traced without its activation node.
SymDenseNoActivation(g, layer) ==
    LET d == Len(g) - 1
    IN  g \o <<Node("null", layer.name \o "_weight", <<>>),
               Node("null", layer.name \o "_bias", <<>>),
               Node("FullyConnected", layer.name \o "_fwd", <<d, d + 1, d + 2>>)>>

\* Dense.hybrid_forward with F = symbol, applied to the last node of g: the
\* layer's parameters enter as variables.
SymDense(g, layer) ==
    LET d == Len(g) - 1
        fc == g \o <<Node("null", layer.name \o "_weight", <<>>),
                     Node("null", layer.name \o "_bias", <<>>),
                     Node("FullyConnected", layer.name \o "_fwd", <<d, d + 1, d + 2>>)>>
    IN  IF layer.act = "relu"
        THEN fc \o <<Node("Activation", layer.name \o "_relu_fwd", <<d + 3>>)>>
        ELSE fc

RECURSIVE SymSequential(_, _, _)
SymSequential(n, i, g) ==
    IF i > Len(n.layers) THEN g
    ELSE SymSequential(n, i + 1, SymDense(g, n.layers[i]))

\* hybrid_forward run once by the interpreter with F = symbol on the
\* placeholder data: what it prints, and the graph it builds; an error in
\* place of the graph when a statement is not supported by symbols, raised
\* where the statement stands.
Trace(n) ==
    LET data == <<Node("null", "data", <<>>)>>
    IN  IF n.cls = "HybridNet"
        THEN LET g1 == SymDense(data, n.layers[1])
                 r == g1 \o <<Node("_npx_relu", n.prefix \o "relu0", <<Len(g1) - 1>>)>>
                 g2 == IF Stmt(n) \in InPlaceForms \cup {"a = a + b"}
                       THEN r \o <<Node("_npi_add", n.prefix \o "add0",
                                        <<Len(r) - 1, Len(r) - 1>>)>>
                       ELSE r
             IN  IF ~SymbolSupports(Stmt(n))
                 THEN [stdout |-> IF Stmt(n) = "x.asnumpy()" THEN <<>>
                                  ELSE <<Line("module F: ", ModuleF(TRUE)),
                                         Line("value  x: ", Symbol(data))>>,
                       graph |-> NotImplementedForSymbol]
                 ELSE
                 [stdout |-> <<Line("module F: ", ModuleF(TRUE)),
                               Line("value  x: ", Symbol(data)),
                               Line("result  : ", Symbol(g2))>>,
                  graph |-> Graph(SymDense(g2, n.layers[2]))]
        ELSE [stdout |-> <<>>, graph |-> Graph(SymSequential(n, 1, data))]

\* The backend executes a graph: the values of its first i nodes, in order.
RECURSIVE Values(_, _, _, _)
Values(g, i, params, t) ==
    IF i = 0 THEN <<>>
    ELSE LET env == Values(g, i - 1, params, t)
             node == g.nodes[i]
             arg(j) == env[node.inputs[j] + 1]
         IN  Append(env,
                 CASE node.op = "null" ->
                        IF node.name = "data" THEN t ELSE params[node.name]
                   [] node.op = "FullyConnected" -> FullyConnected(arg(1), arg(2), arg(3))
                   [] node.op \in {"Activation", "_npx_relu"} -> Relu(arg(1))
                   [] node.op = "_npi_add" -> Add(arg(1), arg(2)))

\* The output of the graph: the value of its head.
Execute(g, params, t) == Values(g, Len(g.nodes), params, t)[g.heads[1] + 1]

\* net.hybridize(): the network becomes symbolic and any kept graph is dropped.
Hybridize(n) == [n EXCEPT !.active = TRUE, !.cached_graph = None]

\* A call that builds the graph anew whenever the network is hybridized.
CallRetracing(n, t) ==
    LET n1 == IF n.in_units = 0 THEN [n EXCEPT !.in_units = t.shape[2]] ELSE n
    IN  IF n1.in_units # t.shape[2]
        THEN [net |-> n, stdout |-> <<>>, y |-> [error |-> "MXNetError"]]
        ELSE IF ~n1.active
        THEN [net |-> n1, stdout |-> EagerForward(n1, t).stdout, y |-> EagerForward(n1, t).y]
        ELSE [net |-> [n1 EXCEPT !.cached_graph = Trace(n1).graph],
              stdout |-> Trace(n1).stdout,
              y |-> Execute(Trace(n1).graph, Params(n1), t)]

\* net(t): the network after the call, what the call prints and returns.
Call(n, t) ==
    LET n1 == IF n.in_units = 0 THEN [n EXCEPT !.in_units = t.shape[2]] ELSE n
    IN  IF n1.in_units # t.shape[2]
        THEN [net |-> n, stdout |-> <<>>, y |-> [error |-> "MXNetError"]]
        ELSE IF ~n1.active
        THEN [net |-> n1, stdout |-> EagerForward(n1, t).stdout, y |-> EagerForward(n1, t).y]
        ELSE IF n1.cached_graph = None
        THEN IF IsError(Trace(n1).graph)
             THEN [net |-> n1, stdout |-> Trace(n1).stdout, y |-> Trace(n1).graph]
             ELSE [net |-> [n1 EXCEPT !.cached_graph = Trace(n1).graph],
                   stdout |-> Trace(n1).stdout,
                   y |-> Execute(Trace(n1).graph, Params(n1), t)]
        ELSE [net |-> n1, stdout |-> <<>>, y |-> Execute(n1.cached_graph, Params(n1), t)]


(***************************************************************************)
(* Export and the shell commands.                                          *)
(***************************************************************************)
SymbolFile(prefix) == prefix \o "-symbol.json"

\* '%s-%04d.params' % (prefix, epoch)
ParamsFile(prefix, epoch) ==
    prefix \o "-"
           \o (IF epoch < 10 THEN "000" ELSE IF epoch < 100 THEN "00"
               ELSE IF epoch < 1000 THEN "0" ELSE "")
           \o ToString(epoch) \o ".params"

\* An export that writes the graph only.
ExportGraphOnly(n, prefix, dir) ==
    IF n.cached_graph = None
    THEN [files |-> dir, out |-> RuntimeError]
    ELSE [files |-> (SymbolFile(prefix) :> [kind |-> "json", content |-> n.cached_graph])
                    @@ dir,
          out |-> None]

\* An export that leaves the variables out of the description.
ExportOpsOnly(n, prefix, dir) ==
    IF n.cached_graph = None
    THEN [files |-> dir, out |-> RuntimeError]
    ELSE [files |-> (SymbolFile(prefix) :>
                       [kind |-> "json",
                        content |-> [n.cached_graph EXCEPT !.nodes =
                                        SelectSeq(@, LAMBDA nd : nd.op # "null"
                                                                 \/ nd.name = "data")]])
                    @@ (ParamsFile(prefix, 0) :>
                          [kind |-> "binary",
                           content |-> [p \in DOMAIN Params(n) |-> Params(n)[p]]])
                    @@ dir,
          out |-> None]

\* net.export(prefix): the kept graph goes to <prefix>-symbol.json and the
\* parameters to <prefix>-0000.params; an error when no graph is kept.
Export(n, prefix, dir) ==
    IF n.cached_graph = None
    THEN [files |-> dir, out |-> RuntimeError]
    ELSE [files |-> (SymbolFile(prefix) :> [kind |-> "json", content |-> n.cached_graph])
                    @@ (ParamsFile(prefix, 0) :>
                          [kind |-> "binary",
                           content |-> [p \in DOMAIN Params(n) |-> Params(n)[p]]])
                    @@ dir,
          out |-> None]

RECURSIVE JoinInputs(_)
JoinInputs(inputs) ==
    IF inputs = <<>> THEN ""
    ELSE "[" \o ToString(Head(inputs)) \o ", 0, 0]"
         \o (IF Len(inputs) = 1 THEN "" ELSE ", ") \o JoinInputs(Tail(inputs))

\* The lines of a node of the JSON description.
NodeLines(node, isLast) ==
    <<"    {",
      "      \"op\": \"" \o node.op \o "\", ",
      "      \"name\": \"" \o node.name \o "\", ",
      "      \"inputs\": [" \o JoinInputs(node.inputs) \o "]",
      IF isLast THEN "    }" ELSE "    }, ">>

\* The lines of the JSON description of a graph, up to the end of its nodes.
JsonLines(g) ==
    <<"{", "  \"nodes\": [">>
    \o Flatten([i \in 1..Len(g.nodes) |-> NodeLines(g.nodes[i], i = Len(g.nodes))])
    \o <<"  ], ">>

\* head: the first ten lines of a file.
HeadLines(lines) == SubSeq(lines, 1, IF Len(lines) < 10 THEN Len(lines) ELSE 10)

(***************************************************************************)
(* SpecHybrid: the cells of the hybridization notebook, run in any order.  *)
(***************************************************************************)
Kernel == [net |-> net, x |-> x, files |-> files, name_count |-> name_count,
           defined |-> defined, calls |-> calls]

InitHybrid ==
    /\ hyIdle
    /\ execution_count = 0
    /\ last = None
    /\ opIdle
    /\ heapIdle

\* The kernel runs a cell: the state it leaves, what the cell prints and
\* what it displays.
RunHybrid(cell, k, stdout, out) ==
    /\ execution_count < MaxRuns
    /\ execution_count' = execution_count + 1
    /\ net' = k.net
    /\ x' = k.x
    /\ files' = k.files
    /\ name_count' = k.name_count
    /\ defined' = k.defined
    /\ calls' = k.calls
    /\ last' = [cell |-> cell, stdout |-> stdout, out |-> out]
    /\ UNCHANGED <<opVars, heapVars>>

\* net = <a new network>
BindNet(k, n) ==
    [k EXCEPT !.net = n, !.calls = {},
              !.name_count = Named(@, IF n.cls = "HybridNet" THEN "hybridnet"
                                      ELSE "hybridsequential", Len(n.layers))]

\* net(x) in the kernel: the network is updated and the call is recorded.
Recorded(k, r) ==
    [k |-> [k EXCEPT !.net = r.net,
                     !.calls = @ \cup {[x |-> k.x, y |-> r.y, active |-> k.net.active]}],
     stdout |-> r.stdout,
     y |-> r.y]

CallNet(k) == Recorded(k, Call(k.net, k.x))

\* for i in range(n): net(x)
RECURSIVE CallTimes(_, _)
CallTimes(k, n) == IF n = 0 THEN k ELSE CallTimes(CallNet(k).k, n - 1)

\* from mxnet import np, npx ...; def get_net(): ...
\* x = np.random.normal(size=(1, 512)); net = get_net(); net(x)
Cell_7bfff0a0 ==
    \E sx \in 0..MaxSeed, sp \in 0..MaxSeed :
        LET k1 == [Kernel EXCEPT !.defined = @ \cup {"mxnet", "get_net"},
                                 !.x = RandomNormal(sx, InUnits)]
            r == CallNet(BindNet(k1, get_net(name_count, sp)))
        IN  RunHybrid("7bfff0a0", r.k, r.stdout, r.y)

\* net.hybridize(); net(x)
HybridizeAndCall(cell) ==
    IF net = None THEN RunHybrid(cell, Kernel, <<>>, NameError)
    ELSE LET r == CallNet([Kernel EXCEPT !.net = Hybridize(net)])
         IN  RunHybrid(cell, r.k, r.stdout, r.y)

Cell_44751c0a == HybridizeAndCall("44751c0a")

\* class Benchmark: ...
Cell_ea8511e3 ==
    RunHybrid("ea8511e3", [Kernel EXCEPT !.defined = @ \cup {"Benchmark"}], <<>>, None)

\* net = get_net()
\* with Benchmark('Without hybridization'): for i in range(1000): net(x)
\* net.hybridize()
\* with Benchmark('With hybridization'): for i in range(1000): net(x)
Cell_52ae911e ==
    IF "get_net" \notin defined THEN RunHybrid("52ae911e", Kernel, <<>>, NameError)
    ELSE \E sp \in 0..MaxSeed :
        LET k1 == BindNet(Kernel, get_net(name_count, sp))
        IN  IF "Benchmark" \notin defined THEN RunHybrid("52ae911e", k1, <<>>, NameError)
            ELSE LET k2 == CallTimes(k1, Reps)
                     k3 == CallTimes([k2 EXCEPT !.net = Hybridize(k2.net)], Reps)
                 IN  RunHybrid("52ae911e", k3,
                               <<Line("Without hybridization", "sec"),
                                 Line("With hybridization", "sec")>>, None)

\* net.export('my_mlp'); !ls -lh my_mlp*
Cell_d4ba3f3c ==
    IF net = None
    THEN RunHybrid("d4ba3f3c", Kernel, <<>>, NameError)
    ELSE LET r == Export(net, "my_mlp", files)
         IN  RunHybrid("d4ba3f3c", [Kernel EXCEPT !.files = r.files],
                       IF IsError(r.out) THEN <<>> ELSE <<[ls |-> DOMAIN r.files]>>,
                       r.out)

\* !head my_mlp-symbol.json
Cell_7c52483a ==
    IF SymbolFile("my_mlp") \notin DOMAIN files
    THEN RunHybrid("7c52483a", Kernel, <<"head: cannot open">>, None)
    ELSE RunHybrid("7c52483a", Kernel,
                   HeadLines(JsonLines(files[SymbolFile("my_mlp")].content)), None)

\* class HybridNet(nn.HybridBlock): ...
Cell_9d7c77e7 ==
    IF "mxnet" \notin defined THEN RunHybrid("9d7c77e7", Kernel, <<>>, NameError)
    ELSE RunHybrid("9d7c77e7", [Kernel EXCEPT !.defined = @ \cup {"HybridNet"}], <<>>, None)

\* net = HybridNet(); net.initialize()
\* x = np.random.normal(size=(1, 3)); net(x)
Cell_e666ad40 ==
    IF "HybridNet" \notin defined THEN RunHybrid("e666ad40", Kernel, <<>>, NameError)
    ELSE \E sx \in 0..MaxSeed, sp \in 0..MaxSeed :
        LET k1 == BindNet(Kernel, HybridNet(name_count, sp))
            r == CallNet([k1 EXCEPT !.x = RandomNormal(sx, 3)])
        IN  RunHybrid("e666ad40", r.k, r.stdout, r.y)

\* net.hybridize(); net(x)
Cell_8d874d8e == HybridizeAndCall("8d874d8e")

\* net(x)
Cell_58154ecd ==
    IF net = None THEN RunHybrid("58154ecd", Kernel, <<>>, NameError)
    ELSE LET r == CallNet(Kernel)
         IN  RunHybrid("58154ecd", r.k, r.stdout, r.y)

NextHybrid ==
    \/ Cell_7bfff0a0
    \/ Cell_44751c0a
    \/ Cell_ea8511e3
    \/ Cell_52ae911e
    \/ Cell_d4ba3f3c
    \/ Cell_7c52483a
    \/ Cell_9d7c77e7
    \/ Cell_e666ad40
    \/ Cell_8d874d8e
    \/ Cell_58154ecd

SpecHybrid == InitHybrid /\ [][NextHybrid]_vars


(***************************************************************************)
(* Claims about the hybridization notebook (checked under SpecHybrid).     *)
(***************************************************************************)
IsNet(cls) == net # None /\ net.cls = cls

\* C5: hybridize leaves the computation result of a HybridSequential
\* unchanged: for the same initialized net and the same input, net(x)
\* evaluated after net.hybridize() equals net(x) evaluated before it.
C5_HybridizeKeepsResult ==
    IsNet("HybridSequential")
    => \A before \in calls, after \in calls :
          (before.x = after.x /\ ~before.active /\ after.active)
          => (IsTensor(before.y) /\ after.y = before.y)

\* A HybridSequential has been called on the same input before and after
\* hybridize, and the result is not the zero vector.
C5_Witness ==
    /\ IsNet("HybridSequential")
    /\ \E before \in calls, after \in calls :
          /\ before.x = after.x
          /\ ~before.active
          /\ after.active
          /\ IsTensor(after.y)
          /\ \E k \in 1..Len(after.y.data) : after.y.data[k] # 0

\* C6: once a HybridNet has been hybridized and called, a later call net(x)
\* runs none of the statements of hybrid_forward (it prints nothing) and
\* returns the same output as the earlier calls on the same x.
C6_LaterCallsSkipPython ==
    [][(/\ Runs("58154ecd")
        /\ IsNet("HybridNet")
        /\ net.active
        /\ net.cached_graph # None)
       => /\ last'.stdout = <<>>
          /\ IsTensor(last'.out)
          /\ \E r \in calls : r.x = x
          /\ \A r \in calls : r.x = x => r.y = last'.out]_vars

\* A hybridized HybridNet that keeps its graph has been called again, after a
\* call that was made before hybridize.
C6_Witness ==
    /\ Ran("58154ecd")
    /\ IsNet("HybridNet")
    /\ net.active
    /\ net.cached_graph # None
    /\ last.stdout = <<>>
    /\ \E r \in calls : ~r.active /\ r.x = x /\ r.y = last.out

\* C7: the module passed as F follows the execution mode: on every call of a
\* HybridNet that is not hybridized, hybrid_forward gets the ndarray module
\* and the input array; on the first call after hybridize it gets the symbol
\* module and a placeholder named data, although the caller passed an array.
C7_ModuleFollowsMode ==
    /\ [][(Runs("58154ecd") /\ IsNet("HybridNet") /\ ~net.active)
          => /\ Len(last'.stdout) = 3
             /\ last'.stdout[1] = [label |-> "module F: ", value |-> "mxnet.ndarray"]
             /\ last'.stdout[2] = [label |-> "value  x: ", value |-> x]]_vars
    /\ [][(Runs("e666ad40") /\ "HybridNet" \in defined)
          => /\ Len(last'.stdout) = 3
             /\ last'.stdout[1] = [label |-> "module F: ", value |-> "mxnet.ndarray"]
             /\ last'.stdout[2] = [label |-> "value  x: ", value |-> x']]_vars
    /\ [][((Runs("44751c0a") \/ Runs("8d874d8e")) /\ IsNet("HybridNet"))
          => /\ IsTensor(x)
             /\ Len(last'.stdout) = 3
             /\ last'.stdout[1] = [label |-> "module F: ", value |-> "mxnet.symbol"]
             /\ last'.stdout[2] = [label |-> "value  x: ", value |-> [symbol |-> "data"]]]_vars

\* A HybridNet that was called eagerly has been hybridized and called: the
\* call printed the symbol module and the placeholder.
C7_Witness ==
    /\ Ran("8d874d8e")
    /\ IsNet("HybridNet")
    /\ last.stdout[1].value = "mxnet.symbol"
    /\ last.stdout[2].value = [symbol |-> "data"]
    /\ \E r \in calls : ~r.active

\* C8: net.export('my_mlp') on a hybridized model that has been run writes
\* exactly two files: the binary parameter file my_mlp-0000.params and the
\* JSON graph description my_mlp-symbol.json; every other file is untouched.
C8_ExportWritesTwoFiles ==
    [][(/\ Runs("d4ba3f3c")
        /\ net # None
        /\ net.active
        /\ net.cached_graph # None)
       => /\ ~IsError(last'.out)
          /\ DOMAIN files' = DOMAIN files \cup {"my_mlp-0000.params", "my_mlp-symbol.json"}
          /\ files'["my_mlp-0000.params"].kind = "binary"
          /\ files'["my_mlp-symbol.json"].kind = "json"
          /\ last'.stdout = <<[ls |-> {"my_mlp-0000.params", "my_mlp-symbol.json"}]>>
          /\ \A f \in DOMAIN files \ {"my_mlp-0000.params", "my_mlp-symbol.json"} :
                files'[f] = files[f]]_vars

\* The benchmarked network, hybridized and run, has been exported.
C8_Witness ==
    /\ Ran("d4ba3f3c")
    /\ net # None
    /\ net.active
    /\ net.cached_graph # None
    /\ DOMAIN files = {"my_mlp-0000.params", "my_mlp-symbol.json"}
    /\ "Benchmark" \in defined

\* C9: the exported JSON description holds a list of nodes, each with an op,
\* a name and a list of inputs that refer to other nodes of the list; its
\* first node is the placeholder (op null, name data, no inputs); and, once
\* export has run, every parameter of the model is a node with op null.
C9_GraphDescription ==
    /\ \A f \in DOMAIN files :
          files[f].kind = "json"
          => LET nodes == files[f].content.nodes
             IN  /\ Len(nodes) >= 1
                 /\ \A i \in 1..Len(nodes) :
                       /\ {"op", "name", "inputs"} \subseteq DOMAIN nodes[i]
                       /\ \A j \in 1..Len(nodes[i].inputs) :
                             /\ nodes[i].inputs[j] \in 0..(Len(nodes) - 1)
                             /\ nodes[i].inputs[j] # i - 1
                 /\ nodes[1] = [op |-> "null", name |-> "data", inputs |-> <<>>]
    /\ (Ran("d4ba3f3c") /\ ~IsError(last.out))
       => \A p \in DOMAIN Params(net) :
             \E i \in 1..Len(files["my_mlp-symbol.json"].content.nodes) :
                /\ files["my_mlp-symbol.json"].content.nodes[i].name = p
                /\ files["my_mlp-symbol.json"].content.nodes[i].op = "null"

\* A network with six parameters has been exported; the second node of the
\* description is its first weight.
C9_Witness ==
    /\ Ran("d4ba3f3c")
    /\ ~IsError(last.out)
    /\ Cardinality(DOMAIN Params(net)) = 6
    /\ files["my_mlp-symbol.json"].content.nodes[2].op = "null"
    /\ files["my_mlp-symbol.json"].content.nodes[2].name = net.layers[1].name \o "_weight"


(***************************************************************************)
(* SpecEdited: the reader has added one statement to the hybrid_forward of *)
(* HybridNet and has run net = HybridNet(), net.initialize() and           *)
(* x = np.random.normal(size=(1, 3)); then the cells net(x) and            *)
(* net.hybridize(); net(x) run in any order.                               *)
(***************************************************************************)
InitEdited ==
    /\ \E stmt \in Statements, sp \in 0..MaxSeed :
          net = [stmt |-> stmt]
                @@ HybridNet([dense |-> 0, hybridsequential |-> 0, hybridnet |-> 0], sp)
    /\ \E sx \in 0..MaxSeed : x = RandomNormal(sx, 3)
    /\ files = <<>>
    /\ name_count = [dense |-> 2, hybridsequential |-> 0, hybridnet |-> 1]
    /\ defined = {"mxnet", "HybridNet"}
    /\ calls = {}
    /\ execution_count = 0
    /\ last = None
    /\ opIdle
    /\ heapIdle

NextEdited == Cell_58154ecd \/ Cell_8d874d8e

SpecEdited == InitEdited /\ [][NextEdited]_vars

(***************************************************************************)
(* Claims about the edited HybridNet (checked under SpecEdited).           *)
(***************************************************************************)

\* C17: inside hybrid_forward, x.asnumpy() and the in-place forms a += b and
\* a[:] = a + b run on arrays, but every call that has to build the graph
\* after hybridize ends in an error and keeps no graph; the rewritten form
\* a = a + b is accepted after hybridize and returns the values the in-place
\* forms return on arrays.
C17_UnsupportedAfterHybridize ==
    /\ [][(Runs("58154ecd") /\ ~net.active)
          => /\ IsTensor(last'.out)
             /\ Len(last'.stdout) = 3]_vars
    /\ [][(Runs("8d874d8e") /\ Stmt(net) \in InPlaceForms \cup {"x.asnumpy()"})
          => /\ IsError(last'.out)
             /\ Len(last'.stdout) < 3
             /\ net'.active
             /\ net'.cached_graph = None]_vars
    /\ [][(Runs("58154ecd") /\ net.active
             /\ Stmt(net) \in InPlaceForms \cup {"x.asnumpy()"})
          => IsError(last'.out)]_vars
    /\ [][(Runs("8d874d8e") /\ Stmt(net) = "a = a + b")
          => /\ IsTensor(last'.out)
             /\ net'.cached_graph # None
             /\ \A form \in InPlaceForms :
                   last'.out = EagerForward([net' EXCEPT !.stmt = form], x).y
             /\ \A r \in calls : r.y = last'.out]_vars

\* A HybridNet whose hybrid_forward holds a += b returned a result before
\* hybridize; the call that followed hybridize has ended in an error after
\* printing the module and the placeholder.
C17_Witness ==
    /\ Ran("8d874d8e")
    /\ Stmt(net) = "a += b"
    /\ IsError(last.out)
    /\ Len(last.stdout) = 2
    /\ last.stdout[1].value = "mxnet.symbol"
    /\ net.cached_graph = None
    /\ \E r \in calls : ~r.active /\ IsTensor(r.y) /\ r.y.data # <<0, 0>>

====
